---- MODULE Spec2Model ----
(***************************************************************************)
(* Model of nbsapi_verify's command line tool (src/nbsapi_verify/cli.py):  *)
(* the configuration generator, the configuration locator, the test-type   *)
(* validator and the hand-over to pytest.main, over a file system holding  *)
(* the three places a common.yaml can live in.                             *)
(***************************************************************************)
EXTENDS Integers, Sequences, FiniteSets, TLC

VARIABLES
    fs,            \* common.yaml at each candidate path: its content, or NoFile
    tests_dir,     \* the package's tests directory as the current process finds it
    pc,            \* position of the current process in cli()
    args,          \* the options click parsed for the current process
    config_path,   \* cli's local config_path
    config,        \* cli's local config (what yaml.safe_load returned)
    test_files,    \* the contents of the files glob.glob returned
    scan,          \* has_auth_tests / has_public_tests after the scan loop
    pytest_args,   \* the argument list handed to pytest.main
    pytest_calls,  \* how often this process called pytest.main
    engine_code,   \* what pytest.main returned
    exit_code,     \* <<>> while running, <<c>> once the process exited with c
    stderr,        \* which error message was echoed to the error stream
    missing,       \* the `missing` list named by the 'all' mismatch error
    stdout,        \* what was echoed to standard output
    runs,          \* number of processes started so far
    prev,          \* history: the process that ran just before this one
    written        \* history: per path, what the last save_yaml call was given

proc == <<pc, args, config_path, config, test_files, scan, pytest_args,
          pytest_calls, engine_code, exit_code, stderr, missing, stdout>>
hist == <<prev, written>>
vars == <<fs, tests_dir, proc, runs, hist>>

-----------------------------------------------------------------------------
(* Bounds of the model *)

MaxRuns == 2        \* processes started one after the other
MaxFiles == 2       \* *.tavern.yaml files in the package's tests directory

-----------------------------------------------------------------------------
(* Python values *)

None == "<None>"
PyStr(s) == [t |-> "str", s |-> s, i |-> 0]
PyInt(n) == [t |-> "int", s |-> "", i |-> n]
PyNull == [t |-> "null", s |-> "", i |-> 0]

\* Python truthiness of an Optional[str] option value
Truthy(v) == v # None /\ v # ""

-----------------------------------------------------------------------------
(* Option values click can hand to cli() *)

HostValues == {None, "", "http://localhost:8000", "8000"}
TestIds == {1, 5}
SolutionIds == {1, 2}
Usernames == {None, "", "alice"}
Passwords == {None, "secret"}
ConfigDirs == {None, "conf"}
TestTypes == {"all", "auth", "public"}

DefaultArgs ==
    [generate |-> FALSE, config_dir |-> None, host |-> None, testid |-> 1,
     username |-> None, password |-> None, solution |-> 1, test_type |-> "all"]

\* class TestType(str, Enum)
TestType == [ALL |-> "all", AUTH |-> "auth", PUBLIC |-> "public"]

-----------------------------------------------------------------------------
(* Paths *)

PathJoin(dir, name) == <<dir, name>>
Cwd == "."
AppDir == "~/.config/nbsinfra_verify"
NoPath == <<>>

Paths == {PathJoin(Cwd, "common.yaml"), PathJoin(AppDir, "common.yaml"),
          PathJoin("conf", "common.yaml")}

-----------------------------------------------------------------------------
(* YAML: scalars are written plain unless the plain text would be read back *)
(* as something other than a string, in which case they are quoted.         *)

IntTexts == {"1", "2", "5", "8000"}

IntToText(n) ==
    CASE n = 1 -> "1" [] n = 2 -> "2" [] n = 5 -> "5" [] OTHER -> "8000"

TextToInt(x) ==
    CASE x = "1" -> 1 [] x = "2" -> 2 [] x = "5" -> 5 [] OTHER -> 8000

\* what the YAML resolver makes of a plain (unquoted) scalar
ResolvePlain(text) ==
    IF text \in IntTexts THEN PyInt(TextToInt(text))
    ELSE IF text = "" THEN PyNull
    ELSE PyStr(text)

represent_AlwaysPlain(v) ==
    [style |-> "plain", text |-> IF v.t = "int" THEN IntToText(v.i) ELSE v.s]

represent(v) ==
    IF v.t = "int" THEN [style |-> "plain", text |-> IntToText(v.i)]
    ELSE IF ResolvePlain(v.s) = v THEN [style |-> "plain", text |-> v.s]
    ELSE [style |-> "single", text |-> v.s]

construct(sc) ==
    IF sc.style = "plain" THEN ResolvePlain(sc.text) ELSE PyStr(sc.text)

NoFile == [kind |-> "absent"]
EmptyFile == [kind |-> "empty"]

\* yaml.dump(data, f, default_flow_style=False, Dumper=NoAliasDumper)
yaml_dump(data) ==
    [kind |-> "mapping",
     variables |-> [k \in DOMAIN data.variables |-> represent(data.variables[k])]]

\* yaml.safe_load(f): an empty document loads as None
PyNone == [isdict |-> FALSE]

safe_load(content) ==
    IF content.kind = "mapping"
    THEN [isdict |-> TRUE,
          variables |-> [k \in DOMAIN content.variables |->
                            construct(content.variables[k])]]
    ELSE PyNone

\* open(file_path, "w") truncates the file before the dump is written
save_yaml_Merge(data, file_path, files) ==
    LET old == files[file_path]
        new == yaml_dump(data)
    IN [files EXCEPT ![file_path] =
          IF old.kind # "mapping" THEN new
          ELSE [kind |-> "mapping",
                variables |->
                   [k \in DOMAIN old.variables \cup DOMAIN new.variables |->
                      IF k \in DOMAIN new.variables THEN new.variables[k]
                      ELSE old.variables[k]]]]

save_yaml(data, file_path, files) ==
    [files EXCEPT ![file_path] = yaml_dump(data)]

exists(path, files) == files[path] # NoFile

-----------------------------------------------------------------------------
(* Configuration files found on disk before the tool ever ran *)

OldConfig ==
    [kind |-> "mapping",
     variables |-> [host |-> [style |-> "plain", text |-> "http://old:9000"],
                    user_id |-> [style |-> "plain", text |-> "2"],
                    solution_id |-> [style |-> "plain", text |-> "2"],
                    username |-> [style |-> "plain", text |-> "bob"],
                    password |-> [style |-> "plain", text |-> "hunter2"]]]

PartialConfig ==
    [kind |-> "mapping",
     variables |-> [host |-> [style |-> "plain", text |-> "http://old:9000"],
                    username |-> [style |-> "plain", text |-> "bob"]]]

InitContents == {NoFile, EmptyFile, OldConfig, PartialConfig}

-----------------------------------------------------------------------------
(* Config locator *)

get_config_locations_AppDirFirst ==
    << PathJoin(AppDir, "common.yaml"), PathJoin(Cwd, "common.yaml") >>

get_config_locations ==
    << PathJoin(Cwd, "common.yaml"), PathJoin(AppDir, "common.yaml") >>

RECURSIVE find_in(_, _, _)
find_in(locations, k, files) ==
    IF k > Len(locations) THEN NoPath
    ELSE IF exists(locations[k], files) THEN locations[k]
    ELSE find_in(locations, k + 1, files)

find_config(files) == find_in(get_config_locations, 1, files)

get_config_path(config_dir) ==
    IF Truthy(config_dir) THEN PathJoin(config_dir, "common.yaml")
    ELSE PathJoin(Cwd, "common.yaml")

-----------------------------------------------------------------------------
(* Test files of the package's tests directory, as lines of text *)

PublicFile == << "test_name: list solutions", "marks:", "- public", "stages:" >>
AuthFile == << "test_name: create solution", "marks:", "- auth", "stages:" >>
PlainFile == << "test_name: unmarked", "stages:" >>
MixedFile == PublicFile \o << "---" >> \o AuthFile

TestFileContents == {PublicFile, AuthFile, PlainFile, MixedFile}

\* the tests directory as the process finds it: absent, or holding some files
TestDirs ==
    {[exists |-> FALSE, files |-> {}]} \cup
    {[exists |-> TRUE, files |-> S] :
        S \in {T \in SUBSET TestFileContents : Cardinality(T) <= MaxFiles}}

\* The directory the installed package ships
ShippedTestDir == [exists |-> TRUE, files |-> {PublicFile, AuthFile}]

\* The command lines tried, each with the tests directory the process will
\* find.  What the chosen branch of cli() never reads (an option, the tests
\* directory) is left at its default.
Invocations ==
    {<< [DefaultArgs EXCEPT !.generate = TRUE, !.config_dir = c, !.host = h,
                            !.testid = t, !.solution = s, !.username = u,
                            !.password = p], ShippedTestDir >> :
        c \in ConfigDirs, h \in HostValues, t \in TestIds, s \in SolutionIds,
        u \in Usernames, p \in Passwords}
    \cup
    {<< [DefaultArgs EXCEPT !.config_dir = c, !.test_type = tt], d >> :
        c \in ConfigDirs, tt \in TestTypes, d \in TestDirs}

\* "marks:\n- auth" in content: the two lines, one right after the other
Contains(content, first, second) ==
    \E k \in 1..(Len(content) - 1) :
        content[k] = first /\ content[k + 1] = second

\* the loop over test_files (lines 184-193)
RECURSIVE ScanLoop(_, _)
ScanLoop(files, acc) ==
    IF files = {} THEN acc
    ELSE LET test_file == CHOOSE f \in files : TRUE
             content == test_file
         IN ScanLoop(files \ {test_file},
                [has_auth_tests |->
                    IF Contains(content, "marks:", "- auth")
                    THEN TRUE ELSE acc.has_auth_tests,
                 has_public_tests |->
                    IF Contains(content, "marks:", "- public")
                    THEN TRUE ELSE acc.has_public_tests])

NoScan == [has_auth_tests |-> FALSE, has_public_tests |-> FALSE]
ScanFiles(files) == ScanLoop(files, NoScan)

-----------------------------------------------------------------------------
(* Test-type validator *)

has_auth_config_Either(cfg) ==
    "username" \in DOMAIN cfg.variables \/ "password" \in DOMAIN cfg.variables

\* line 157
has_auth_config(cfg) ==
    "username" \in DOMAIN cfg.variables /\ "password" \in DOMAIN cfg.variables

AuthConfigMismatch_AnyType(test_type, cfg) == ~has_auth_config(cfg)

\* line 160
AuthConfigMismatch(test_type, cfg) ==
    test_type \in {TestType.AUTH, TestType.ALL} /\ ~has_auth_config(cfg)

MissingTypes_Swapped(sc) ==
    (IF ~sc.has_public_tests THEN << "auth" >> ELSE << >>) \o
    (IF ~sc.has_auth_tests THEN << "public" >> ELSE << >>)

\* lines 213-217
MissingTypes(sc) ==
    (IF ~sc.has_auth_tests THEN << "auth" >> ELSE << >>) \o
    (IF ~sc.has_public_tests THEN << "public" >> ELSE << >>)

TestFileMismatch_NoAllCheck(test_type, sc) ==
    IF test_type = TestType.AUTH /\ ~sc.has_auth_tests THEN "no auth test files"
    ELSE IF test_type = TestType.PUBLIC /\ ~sc.has_public_tests
        THEN "no public test files"
    ELSE ""

\* lines 196-223: the error the run ends with, "" when there is none
TestFileMismatch(test_type, sc) ==
    IF test_type = TestType.AUTH /\ ~sc.has_auth_tests THEN "no auth test files"
    ELSE IF test_type = TestType.PUBLIC /\ ~sc.has_public_tests
        THEN "no public test files"
    ELSE IF test_type = TestType.ALL
            /\ ~(sc.has_auth_tests /\ sc.has_public_tests)
        THEN "test types missing"
    ELSE ""

\* lines 226-237
PytestArgs(path, test_type) ==
    [cfg |-> path,
     marker |-> IF test_type # TestType.ALL THEN test_type ELSE None]

\* pytest.ExitCode values pytest.main can return
PytestExitCodes == {0, 1, 5}

-----------------------------------------------------------------------------
(* Config generator *)

\* line 109: `if not host`
HostMissing_OnlyNone(host) == host = None

HostMissing(host) == ~Truthy(host)

BuildConfig_EitherCredential(a) ==
    LET base == [host |-> PyStr(a.host), user_id |-> PyInt(a.testid),
                 solution_id |-> PyInt(a.solution)]
    IN [variables |->
          IF Truthy(a.username) \/ Truthy(a.password)
          THEN [host |-> base.host, user_id |-> base.user_id,
                solution_id |-> base.solution_id,
                username |-> IF a.username = None THEN PyNull
                             ELSE PyStr(a.username),
                password |-> IF a.password = None THEN PyNull
                             ELSE PyStr(a.password)]
          ELSE base]

\* lines 116-121
BuildConfig(a) ==
    LET base == [host |-> PyStr(a.host), user_id |-> PyInt(a.testid),
                 solution_id |-> PyInt(a.solution)]
    IN [variables |->
          IF Truthy(a.username) /\ Truthy(a.password)
          THEN [host |-> base.host, user_id |-> base.user_id,
                solution_id |-> base.solution_id,
                username |-> PyStr(a.username), password |-> PyStr(a.password)]
          ELSE base]

-----------------------------------------------------------------------------
(* A process: one call of cli() *)

NoProc ==
    [generate |-> FALSE, ok |-> FALSE, config_dir |-> None, host |-> None,
     path |-> NoPath, credentials |-> FALSE]

Init ==
    /\ fs \in [Paths -> InitContents]
    /\ tests_dir = ShippedTestDir
    /\ written = [p \in Paths |-> << >>]
    /\ prev = NoProc
    /\ runs = 0
    /\ pc = "START"
    /\ args = DefaultArgs
    /\ config_path = NoPath
    /\ config = << >>
    /\ test_files = << >>
    /\ scan = NoScan
    /\ pytest_args = << >>
    /\ pytest_calls = 0
    /\ engine_code = << >>
    /\ exit_code = << >>
    /\ stderr = ""
    /\ missing = << >>
    /\ stdout = ""

\* sys.exit(code) after click.echo(message, err=True)
Fail(message) ==
    /\ pc' = "FAIL"
    /\ stderr' = message
    /\ exit_code' = << 1 >>

\* click parses the options and calls cli(); line 108 picks the branch
CliEntry ==
    /\ pc = "START"
    /\ runs < MaxRuns
    /\ runs' = runs + 1
    /\ \E inv \in Invocations : args' = inv[1] /\ tests_dir' = inv[2]
    /\ pc' = IF args'.generate THEN "GENERATE" ELSE "LOCATE"
    /\ UNCHANGED <<fs, hist, config_path, config, test_files, scan, pytest_args,
                   pytest_calls, engine_code, exit_code, stderr, missing, stdout>>

\* lines 109-126
Generate ==
    /\ pc = "GENERATE"
    /\ IF HostMissing(args.host)
       THEN /\ Fail("--host is required when using --generate")
            /\ UNCHANGED <<fs, written, config_path, config, stdout>>
       ELSE /\ config_path' = get_config_path(args.config_dir)
            /\ config' = << BuildConfig(args) >>
            /\ fs' = save_yaml(config'[1], config_path', fs)
            /\ written' = [written EXCEPT ![config_path'] = config']
            /\ stdout' = "Generated configuration file"
            /\ pc' = "DONE"
            /\ exit_code' = << 0 >>
            /\ UNCHANGED stderr
    /\ UNCHANGED <<tests_dir, args, test_files, scan, pytest_args,
                   pytest_calls, engine_code, missing, runs, prev>>

\* lines 129-150
Locate ==
    /\ pc = "LOCATE"
    /\ LET path == IF Truthy(args.config_dir)
                   THEN PathJoin(args.config_dir, "common.yaml")
                   ELSE find_config(fs)
       IN /\ config_path' = path
          /\ IF Truthy(args.config_dir) /\ ~exists(path, fs)
             THEN Fail("Configuration file not found at config_path")
             ELSE IF ~Truthy(args.config_dir) /\ path = NoPath
             THEN Fail("Configuration file not found in any of these locations")
             ELSE /\ pc' = "VALIDATE"
                  /\ UNCHANGED <<stderr, exit_code>>
    /\ UNCHANGED <<fs, tests_dir, hist, runs, args, config, test_files, scan,
                   pytest_args, pytest_calls, engine_code, missing, stdout>>

\* lines 153-237
Validate ==
    /\ pc = "VALIDATE"
    /\ LET cfg == safe_load(fs[config_path])
       IN /\ config' = << cfg >>
          /\ IF ~cfg.isdict
             THEN \* config.get raises AttributeError: traceback, exit status 1
                  /\ Fail("Traceback")
                  /\ UNCHANGED <<test_files, scan, missing, pytest_args>>
             ELSE IF AuthConfigMismatch(args.test_type, cfg)
             THEN /\ Fail("auth configuration is missing")
                  /\ UNCHANGED <<test_files, scan, missing, pytest_args>>
             ELSE LET test_dir == tests_dir IN
                    IF ~test_dir.exists
                    THEN /\ Fail("Test directory not found")
                         /\ UNCHANGED <<test_files, scan, missing, pytest_args>>
                    ELSE /\ test_files' = << test_dir.files >>
                         /\ scan' = ScanFiles(test_dir.files)
                         /\ LET err == TestFileMismatch(args.test_type, scan')
                            IN IF err # ""
                               THEN /\ Fail(err)
                                    /\ missing' =
                                         IF err = "test types missing"
                                         THEN MissingTypes(scan') ELSE << >>
                                    /\ UNCHANGED pytest_args
                               ELSE /\ pytest_args' =
                                         << PytestArgs(config_path,
                                                       args.test_type) >>
                                    /\ pc' = "INVOKE"
                                    /\ UNCHANGED <<stderr, exit_code, missing>>
    /\ UNCHANGED <<fs, tests_dir, hist, runs, args, config_path, pytest_calls,
                   engine_code, stdout>>

\* line 243: pytest.main runs the tests and returns its exit code
InvokeEngine ==
    /\ pc = "INVOKE"
    /\ pytest_calls' = pytest_calls + 1
    /\ \E code \in PytestExitCodes : engine_code' = << code >>
    /\ pc' = "REPORT"
    /\ UNCHANGED <<fs, tests_dir, hist, runs, args, config_path, config,
                   test_files, scan, pytest_args, exit_code, stderr, missing,
                   stdout>>

Report_ExitZero ==
    /\ pc = "REPORT"
    /\ stdout' = "format_results(capture)"
    /\ exit_code' = << 0 >>
    /\ pc' = "DONE"
    /\ UNCHANGED <<fs, tests_dir, hist, runs, args, config_path, config,
                   test_files, scan, pytest_args, pytest_calls, engine_code,
                   stderr, missing>>

\* lines 246-248
Report ==
    /\ pc = "REPORT"
    /\ stdout' = "format_results(capture)"
    /\ exit_code' = engine_code
    /\ pc' = "DONE"
    /\ UNCHANGED <<fs, tests_dir, hist, runs, args, config_path, config,
                   test_files, scan, pytest_args, pytest_calls, engine_code,
                   stderr, missing>>

\* the process is gone; the next call of the tool starts from scratch
ProcessExit ==
    /\ pc \in {"DONE", "FAIL"}
    /\ runs < MaxRuns
    /\ prev' = IF args.generate /\ pc = "DONE"
               THEN [generate |-> TRUE, ok |-> TRUE,
                     config_dir |-> args.config_dir, host |-> args.host,
                     path |-> config_path,
                     credentials |->
                        "password" \in DOMAIN config[1].variables]
               ELSE NoProc
    /\ pc' = "START"
    /\ args' = DefaultArgs
    /\ config_path' = NoPath
    /\ config' = << >>
    /\ test_files' = << >>
    /\ scan' = NoScan
    /\ pytest_args' = << >>
    /\ pytest_calls' = 0
    /\ engine_code' = << >>
    /\ exit_code' = << >>
    /\ stderr' = ""
    /\ missing' = << >>
    /\ stdout' = ""
    /\ tests_dir' = ShippedTestDir
    /\ UNCHANGED <<fs, runs, written>>

Next ==
    \/ CliEntry
    \/ Generate
    \/ Locate
    \/ Validate
    \/ InvokeEngine
    \/ Report
    \/ ProcessExit

Spec == Init /\ [][Next]_vars

\* a started process runs on to its exit: cli() is straight-line code and
\* pytest.main is taken to return
Step == Generate \/ Locate \/ Validate \/ InvokeEngine \/ Report

\* one process, from its start to its exit
RunNext ==
    \/ CliEntry
    \/ Generate
    \/ Locate
    \/ Validate
    \/ InvokeEngine
    \/ Report

RunSpec == Init /\ [][RunNext]_vars /\ WF_vars(Step)

-----------------------------------------------------------------------------
(* Vocabulary of the properties *)

Running == pc \in {"GENERATE", "LOCATE", "VALIDATE", "INVOKE", "REPORT"}
Exited == pc \in {"DONE", "FAIL"}
TestRun == pc # "START" /\ ~args.generate
EngineReached == pc \in {"INVOKE", "REPORT"} \/ pytest_calls > 0
FailedWithOne == pc = "FAIL" /\ exit_code = << 1 >> /\ pytest_calls = 0

CwdFile == PathJoin(Cwd, "common.yaml")
AppFile == PathJoin(AppDir, "common.yaml")
DirFile(d) == PathJoin(d, "common.yaml")

\* the file carries the mark: a "marks:" line with the mark's item under it
Carries(file, mark) ==
    \E k \in DOMAIN file :
        /\ k + 1 \in DOMAIN file
        /\ file[k] = "marks:"
        /\ file[k + 1] = (IF mark = "auth" THEN "- auth" ELSE "- public")

\* some file of the tests directory carries the mark
DirCarries(mark) ==
    tests_dir.exists /\ \E f \in tests_dir.files : Carries(f, mark)

\* the keys of the variables of the file the run located
Located == config_path # NoPath /\ fs[config_path] # NoFile
LocatedKeys ==
    IF Located /\ fs[config_path].kind = "mapping"
    THEN DOMAIN fs[config_path].variables ELSE {}
LocatedMapping == Located /\ fs[config_path].kind = "mapping"
HasCredentials == {"username", "password"} \subseteq LocatedKeys

-----------------------------------------------------------------------------
\* C1: in a run without --generate, pytest.main is reached only if, for
\* test_type auth or all, the located configuration's variables hold both
\* username and password and some discovered file carries the auth mark, and,
\* for test_type public or all, some discovered file carries the public mark.
C1_EngineGated ==
    (TestRun /\ EngineReached) =>
        /\ args.test_type \in {"auth", "all"} =>
              HasCredentials /\ DirCarries("auth")
        /\ args.test_type \in {"public", "all"} => DirCarries("public")
        /\ test_files = << tests_dir.files >>

C1_Witness ==
    /\ TestRun /\ pytest_calls = 1 /\ args.test_type = "all"
    /\ tests_dir.files = {MixedFile}

-----------------------------------------------------------------------------
\* C2: a usage error (generate without host), a not-found error (no
\* configuration file, no tests directory) and a mismatch error (category not
\* supported by the configuration or by the test files) all end the run in
\* FAIL with exit code 1 and without any call of pytest.main.
UsageError == pc # "START" /\ args.generate /\ args.host \in {None, ""}
ConfigNotFound ==
    /\ TestRun
    /\ IF args.config_dir \in {None, ""}
       THEN fs[CwdFile] = NoFile /\ fs[AppFile] = NoFile
       ELSE fs[DirFile(args.config_dir)] = NoFile
ConfigMismatch ==
    /\ TestRun /\ pc # "LOCATE" /\ LocatedMapping
    /\ args.test_type \in {"auth", "all"} /\ ~HasCredentials
TestDirNotFound == TestRun /\ ~tests_dir.exists
TestFileMismatchError ==
    /\ TestRun /\ tests_dir.exists
    /\ \/ args.test_type \in {"auth", "all"} /\ ~DirCarries("auth")
       \/ args.test_type \in {"public", "all"} /\ ~DirCarries("public")
AnyError ==
    UsageError \/ ConfigNotFound \/ ConfigMismatch \/ TestDirNotFound
        \/ TestFileMismatchError

C2_FailFast ==
    /\ AnyError => ~EngineReached
    /\ (AnyError /\ Exited) => FailedWithOne
    /\ pc = "FAIL" => FailedWithOne /\ pytest_args = << >> /\ stderr # ""

C2_Witness ==
    /\ pc = "FAIL" /\ TestFileMismatchError
    /\ ~ConfigNotFound /\ ~ConfigMismatch /\ args.test_type = "all"

-----------------------------------------------------------------------------
\* C3: a --generate run without a host (absent or empty) ends with exit code
\* 1 and writes no common.yaml anywhere: the file system stays as it was.
C3_NoHostNoWrite ==
    [][ (pc = "GENERATE" /\ args.host \in {None, ""}) =>
            /\ fs' = fs
            /\ pc' = "FAIL"
            /\ exit_code' = << 1 >> ]_vars

C3_Witness ==
    /\ pc = "FAIL" /\ args.generate /\ args.host = ""
    /\ args.config_dir = "conf" /\ args.username = "alice"

-----------------------------------------------------------------------------
-----------------------------------------------------------------------------
\* C5: with a configuration found and test files that carry only public
\* marks, auth fails with exit 1, all fails with exit 1 and an error naming
\* auth, and not public, as missing, and public reaches the engine.
OnlyPublicMarks ==
    tests_dir.exists /\ DirCarries("public") /\ ~DirCarries("auth")

-----------------------------------------------------------------------------
\* C6: after a successful --generate run with a non-empty host, a run
\* without --generate that is given the same --config-dir locates the
\* configuration at the path the generate run wrote, and the host it loads
\* is the host that was passed to generate.
AfterGenerate ==
    TestRun /\ prev.generate /\ prev.ok /\ args.config_dir = prev.config_dir

C6_RoundTrip ==
    (AfterGenerate /\ pc # "LOCATE") =>
        /\ config_path = prev.path
        /\ written[prev.path] # << >>
        /\ pc # "VALIDATE" =>
              /\ config # << >>
              /\ config[1].isdict
              /\ config[1].variables.host = PyStr(prev.host)

C6_Witness ==
    /\ AfterGenerate /\ pc = "INVOKE"
    /\ prev.host = "8000" /\ prev.config_dir = None
    /\ fs[AppFile] # NoFile

-----------------------------------------------------------------------------
\* C7: a run without --generate uses <config-dir>/common.yaml alone when
\* --config-dir is given and fails with exit 1 when that file is absent,
\* whatever else exists; without --config-dir it uses the current
\* directory's file if it exists, else the user config directory's file if
\* it exists, else it fails with exit 1.
LocateFailed ==
    /\ FailedWithOne /\ config = << >>
    /\ stderr \in {"Configuration file not found at config_path",
                   "Configuration file not found in any of these locations"}

C7_Priority ==
    (TestRun /\ pc # "LOCATE") =>
        IF args.config_dir \notin {None, ""}
        THEN IF fs[DirFile(args.config_dir)] # NoFile
             THEN config_path = DirFile(args.config_dir) /\ ~LocateFailed
             ELSE LocateFailed
        ELSE IF fs[CwdFile] # NoFile
             THEN config_path = CwdFile /\ ~LocateFailed
        ELSE IF fs[AppFile] # NoFile
             THEN config_path = AppFile /\ ~LocateFailed
        ELSE LocateFailed

C7_Witness ==
    /\ TestRun /\ args.config_dir = None /\ pc = "INVOKE"
    /\ fs[CwdFile] = NoFile /\ config_path = AppFile
    /\ fs[DirFile("conf")] # NoFile

C7_WitnessNoFallback ==
    /\ TestRun /\ args.config_dir = "conf" /\ LocateFailed
    /\ fs[CwdFile] # NoFile /\ fs[AppFile] # NoFile

-----------------------------------------------------------------------------
\* C8: a run moves START -> GENERATE | LOCATE, GENERATE -> DONE | FAIL,
\* LOCATE -> FAIL | VALIDATE, VALIDATE -> FAIL | INVOKE, INVOKE -> REPORT,
\* REPORT -> DONE and always ends in DONE or FAIL; FAIL exits with 1, a
\* successful generate with 0, and a run that reached INVOKE prints the
\* formatted results and exits with the code pytest.main returned.
Transitions ==
    {<< "START", "GENERATE" >>, << "START", "LOCATE" >>,
     << "GENERATE", "DONE" >>, << "GENERATE", "FAIL" >>,
     << "LOCATE", "FAIL" >>, << "LOCATE", "VALIDATE" >>,
     << "VALIDATE", "FAIL" >>, << "VALIDATE", "INVOKE" >>,
     << "INVOKE", "REPORT" >>, << "REPORT", "DONE" >>}

ExitCodeOK ==
    /\ ~Exited => exit_code = << >>
    /\ pc = "FAIL" => exit_code = << 1 >>
    /\ (pc = "DONE" /\ args.generate) => exit_code = << 0 >>
    /\ (pc = "DONE" /\ ~args.generate) =>
          /\ pytest_calls = 1
          /\ engine_code # << >>
          /\ exit_code = engine_code
          /\ stdout = "format_results(capture)"

C8_StateMachine ==
    /\ [][ (pc' # pc /\ ~Exited) => << pc, pc' >> \in Transitions ]_vars
    /\ []ExitCodeOK
    /\ [](Running => ENABLED Step)
    /\ (Running ~> Exited)

C8_Witness ==
    /\ pc = "DONE" /\ ~args.generate /\ exit_code = << 5 >>
    /\ args.test_type = "auth"

-----------------------------------------------------------------------------
\* C9: the configuration a successful --generate run writes holds host,
\* user_id (= --testid) and solution_id (= --solution); it holds username
\* and password only if both options were supplied, and never one of the
\* two keys without the other.
GeneratedOK == pc = "DONE" /\ args.generate

C9_GeneratedContent ==
    GeneratedOK =>
        LET file == fs[get_config_path(args.config_dir)]
            keys == DOMAIN file.variables
            loaded == safe_load(file).variables
        IN /\ file.kind = "mapping"
           /\ {"host", "user_id", "solution_id"} \subseteq keys
           /\ keys \subseteq {"host", "user_id", "solution_id",
                              "username", "password"}
           /\ loaded.host = PyStr(args.host)
           /\ loaded.user_id = PyInt(args.testid)
           /\ loaded.solution_id = PyInt(args.solution)
           /\ ("username" \in keys) = ("password" \in keys)
           /\ "username" \in keys =>
                 /\ args.username # None /\ args.password # None
                 /\ loaded.username = PyStr(args.username)
                 /\ loaded.password = PyStr(args.password)
           /\ (args.username = None \/ args.password = None) =>
                 keys \cap {"username", "password"} = {}

C9_Witness ==
    /\ GeneratedOK /\ args.testid = 5 /\ args.solution = 2
    /\ args.username = "alice" /\ args.password = None
    /\ args.host = "http://localhost:8000"

-----------------------------------------------------------------------------
\* C10: a configuration file changes only in a successful --generate run
\* that targets its path, and then its whole content is replaced: nothing
\* of the earlier content survives.  Every other step leaves every file as
\* it is, so a file generated once always equals what the last successful
\* generate for its path produced.
ExpectedKeys(a) ==
    {"host", "user_id", "solution_id"} \cup
    (IF a.username \notin {None, ""} /\ a.password \notin {None, ""}
     THEN {"username", "password"} ELSE {})

C10_Frame ==
    /\ [][ \A p \in Paths : fs'[p] # fs[p] =>
              /\ pc = "GENERATE" /\ pc' = "DONE" /\ exit_code' = << 0 >>
              /\ args.host \notin {None, ""}
              /\ p = (IF args.config_dir \in {None, ""} THEN CwdFile
                      ELSE DirFile(args.config_dir))
              /\ fs'[p].kind = "mapping"
              /\ DOMAIN fs'[p].variables = ExpectedKeys(args)
              /\ written'[p] # written[p] ]_vars
    /\ [](\A p \in Paths :
            IF written[p] = << >> THEN fs[p] \in InitContents
            ELSE /\ fs[p].kind = "mapping"
                 /\ safe_load(fs[p]).variables = written[p][1].variables)

\* a generate without credentials replaced the file that the generate
\* before it had written with credentials
C10_Witness ==
    /\ pc = "DONE" /\ args.generate /\ args.username = None
    /\ args.config_dir = "conf" /\ args.host = "http://localhost:8000"
    /\ prev.generate /\ prev.ok /\ prev.path = DirFile("conf")
    /\ prev.host = "8000" /\ prev.credentials
    /\ "password" \notin DOMAIN fs[DirFile("conf")].variables

====
